---- MODULE Spec2Model ----
(***************************************************************************)
(* Model of src/relation/table.rs: reflection of a MySQL table into a      *)
(* Table value (Table::from_db, Attribute::from_row, AttributeType::from)  *)
(* and the synthesis of statement text from it (Table::insert, create).    *)
(*                                                                         *)
(* Text is modelled as a sequence of one-character strings, so that        *)
(* formatting, pattern matching and case conversion are computed           *)
(* character by character as the code computes them.  A TLA+ string cannot *)
(* hold the backquote character; it is written "BQ" here.                  *)
(***************************************************************************)
EXTENDS Integers, Sequences, FiniteSets, TLC

VARIABLES
    raw_str,    \* AttributeType::from: the declaration text handed to it
    parsed,     \* AttributeType::from: its outcome
    table,      \* Table::insert / create: the Table value (self)
    values,     \* Table::insert: the value map
    iter_order, \* create: the order each attribute's constraint set was iterated in
    stmt,       \* Table::insert / create: the outcome
    env,        \* from_db: outcome of DataBase::from_env ("ok" / "err")
    db,         \* from_db: what the database holds for the named table
    pc,         \* from_db: position of the call
    attr,       \* from_db: the Vec<(Option<Attribute>, bool)> built so far
    queries,    \* from_db: the statements sent to the executor, in order
    result,     \* from_db: its outcome
    constraint_set, \* Attribute::constraint: a HashSet<Constraint> being inserted into
    hasher      \* the RandomState that set was created with

vars == <<raw_str, parsed, table, values, iter_order, stmt, env, db, pc, attr, queries, result,
          constraint_set, hasher>>

---------------------------------------------------------------------------
(* Option / outcome values.  A panic (unwrap on None or Err, todo!(),      *)
(* index out of bounds) is the outcome Abort.                              *)

None == [kind |-> "None"]
Some(v) == [kind |-> "Some", val |-> v]
Abort == [kind |-> "Abort"]
Pending == [kind |-> "Pending"]
Idle == [kind |-> "Idle"]

---------------------------------------------------------------------------
(* Text helpers.                                                           *)

Digits == <<"0","1","2","3","4","5","6","7","8","9">>
LowerCase == <<"a","b","c","d","e","f","g","h","i","j","k","l","m","n","o","p","q","r","s","t","u","v","w","x","y","z">>
UpperCase == <<"A","B","C","D","E","F","G","H","I","J","K","L","M","N","O","P","Q","R","S","T","U","V","W","X","Y","Z">>

IndexOf(c, alphabet) ==
    IF \E k \in 1..Len(alphabet) : alphabet[k] = c
    THEN CHOOSE k \in 1..Len(alphabet) : alphabet[k] = c
    ELSE 0

IsDigit(c) == IndexOf(c, Digits) # 0

IsAlnum(c) ==
    IndexOf(c, Digits) # 0 \/ IndexOf(c, LowerCase) # 0 \/ IndexOf(c, UpperCase) # 0

\* str::to_ascii_uppercase
to_ascii_uppercase(s) ==
    [i \in 1..Len(s) |->
        IF IndexOf(s[i], LowerCase) # 0 THEN UpperCase[IndexOf(s[i], LowerCase)] ELSE s[i]]

\* Display of an unsigned integer ({} in format!)
RECURSIVE FmtNat(_)
FmtNat(n) ==
    IF n < 10 THEN <<Digits[n + 1]>> ELSE FmtNat(n \div 10) \o <<Digits[(n % 10) + 1]>>

\* the value of a string of decimal digits
RECURSIVE DigitsValue(_)
DigitsValue(ds) ==
    IF ds = <<>> THEN 0
    ELSE 10 * DigitsValue(SubSeq(ds, 1, Len(ds) - 1)) + (IndexOf(ds[Len(ds)], Digits) - 1)

\* [String]::join(sep)
RECURSIVE Join(_, _)
Join(strs, sep) ==
    IF strs = <<>> THEN <<>>
    ELSE IF Len(strs) = 1 THEN strs[1]
    ELSE strs[1] \o sep \o Join(Tail(strs), sep)

\* s matches lit at 0-based offset i
IsPrefixAt(lit, s, i) ==
    /\ i + Len(lit) <= Len(s)
    /\ \A k \in 1..Len(lit) : s[i + k] = lit[k]

---------------------------------------------------------------------------
(* AttributeType: the parser (AttributeType::from, regex_check!) and the   *)
(* type display.  A value is [kind |-> <variant>, p |-> <numeric fields>]. *)

U8Max == 255
U16Max == 65535

AttrType(kind, p) == [kind |-> kind, p |-> p]

\* one regex_check! line: the literal the pattern starts with, the variant,
\* and one parse width per capture group "\((\d+)\)" / "\((\d+),(\d+)\)"
Pat(lit, variant, widths) == [lit |-> lit, variant |-> variant, widths |-> widths]

\* the regex_check! lines of AttributeType::from, in the order of the code
Patterns == <<
    Pat(<<"C","H","A","R">>, "Char", <<U8Max>>),
    Pat(<<"V","A","R","C","H","A","R">>, "VarChar", <<U16Max>>),
    Pat(<<"B","I","N","A","R","Y">>, "Binary", <<U8Max>>),
    Pat(<<"V","A","R","B","I","N","A","R","Y">>, "VarBinary", <<U16Max>>),
    Pat(<<"T","I","N","Y","B","L","O","B">>, "TinyBlob", <<>>),
    Pat(<<"T","I","N","Y","T","E","X","T">>, "TinyText", <<>>),
    Pat(<<"T","E","X","T">>, "Text", <<>>),
    Pat(<<"B","L","O","B">>, "Blob", <<U16Max>>),
    Pat(<<"M","E","D","I","U","M","T","E","X","T">>, "MediumText", <<>>),
    Pat(<<"L","O","N","G","T","E","X","T">>, "LongText", <<>>),
    Pat(<<"L","O","N","G","B","L","O","B">>, "LongBlob", <<>>),
    Pat(<<"B","I","T">>, "Bit", <<U8Max>>),
    Pat(<<"T","I","N","Y","I","N","T">>, "TinyInt", <<U8Max>>),
    Pat(<<"B","O","O","L">>, "Bool", <<>>),
    Pat(<<"B","O","O","L","E","A","N">>, "Boolean", <<>>),
    Pat(<<"S","M","A","L","L","I","N","T">>, "SmallInt", <<U8Max>>),
    Pat(<<"M","E","D","I","U","M","I","N","T">>, "MediumInt", <<U8Max>>),
    Pat(<<"I","N","T">>, "Int", <<U8Max>>),
    Pat(<<"I","N","T","E","G","E","R">>, "Int", <<U8Max>>),
    Pat(<<"B","i","g","I","n","t">>, "BigInt", <<U8Max>>),
    Pat(<<"F","L","O","A","T">>, "Float", <<U8Max>>),
    Pat(<<"D","E","C","I","M","A","L">>, "Decimal", <<U8Max, U8Max>>),
    Pat(<<"D","A","T","E">>, "Date", <<>>),
    Pat(<<"D","A","T","E","T","I","M","E">>, "DateTime", <<>>),
    Pat(<<"T","I","M","E","S","T","A","M","P">>, "TimeStamp", <<>>),
    Pat(<<"T","I","M","E">>, "Time", <<>>),
    Pat(<<"Y","E","A","R">>, "Year", <<>>) >>

NoMatch == [kind |-> "NoMatch"]

\* length of the longest run of digits of s from 1-based position pos
RECURSIVE DigitRun(_, _)
DigitRun(s, pos) ==
    IF pos <= Len(s) /\ IsDigit(s[pos]) THEN 1 + DigitRun(s, pos + 1) ELSE 0

\* the capture groups (\d+) from position pos on: group g of n is a greedy
\* run of digits followed by "," (a further group follows) or ")" (the last
\* one); a shorter run is followed by a digit, so backtracking adds nothing
RECURSIVE MatchGroups(_, _, _, _)
MatchGroups(s, pos, g, n) ==
    LET run == DigitRun(s, pos)
        after == pos + run
        sep == IF g < n THEN "," ELSE ")"
    IN  IF run = 0 \/ after > Len(s) THEN NoMatch
        ELSE IF s[after] # sep THEN NoMatch
        ELSE IF g = n THEN [kind |-> "Match", caps |-> <<SubSeq(s, pos, after - 1)>>]
        ELSE LET rest == MatchGroups(s, after + 1, g + 1, n)
             IN  IF rest.kind = "NoMatch" THEN NoMatch
                 ELSE [kind |-> "Match", caps |-> <<SubSeq(s, pos, after - 1)>> \o rest.caps]

\* the pattern matches s at 0-based offset i
MatchAt(p, s, i) ==
    IF ~IsPrefixAt(p.lit, s, i) THEN NoMatch
    ELSE IF p.widths = <<>> THEN [kind |-> "Match", caps |-> <<>>]
    ELSE IF i + Len(p.lit) + 1 > Len(s) THEN NoMatch
    ELSE IF s[i + Len(p.lit) + 1] # "(" THEN NoMatch
    ELSE MatchGroups(s, i + Len(p.lit) + 2, 1, Len(p.widths))

\* Regex::find / Regex::captures: the leftmost match of the unanchored pattern
RegexFind(p, s) ==
    LET starts == {i \in 0..Len(s) : MatchAt(p, s, i).kind = "Match"}
    IN  IF starts = {} THEN NoMatch
        ELSE LET first == CHOOSE i \in starts : \A j \in starts : i <= j
             IN  [kind |-> "Match", start |-> first, caps |-> MatchAt(p, s, first).caps]

\* a parse keeping the low bits of a value that exceeds the type
ParseUInt_wrapping(ds, max) == Some(DigitsValue(ds) % (max + 1))

\* str::parse::<u8> / ::<u16> of a capture: Err when the value exceeds the type
ParseUInt(ds, max) ==
    IF DigitsValue(ds) <= max THEN Some(DigitsValue(ds)) ELSE None

FallThrough == [kind |-> "FallThrough"]

\* one regex_check! expansion: returns from AttributeType::from when the
\* leftmost match starts at offset 0 (the unwrap of a failed parse aborts),
\* and falls through to the next line otherwise
regex_check(p, raw) ==
    LET m == RegexFind(p, raw)
    IN  IF m.kind = "Match" /\ m.start = 0
        THEN LET nums == [k \in 1..Len(p.widths) |-> ParseUInt(m.caps[k], p.widths[k])]
             IN  IF \E k \in 1..Len(p.widths) : nums[k].kind = "None"
                 THEN Abort
                 ELSE Some(AttrType(p.variant, [k \in 1..Len(p.widths) |-> nums[k].val]))
        ELSE FallThrough

RECURSIVE FromLine(_, _)
FromLine(raw, k) ==
    IF k > Len(Patterns) THEN None
    ELSE LET r == regex_check(Patterns[k], raw)
         IN  IF r.kind = "FallThrough" THEN FromLine(raw, k + 1) ELSE r

\* AttributeType::from
AttributeType_from(raw) == FromLine(raw, 1)

\* the keyword each variant is written with by Display for AttributeType
DisplayName(kind) ==
    CASE kind = "Char" -> <<"c","h","a","r">>
      [] kind = "VarChar" -> <<"v","a","r","c","h","a","r">>
      [] kind = "Binary" -> <<"b","i","n","a","r","y">>
      [] kind = "VarBinary" -> <<"v","a","r","b","i","n","a","r","y">>
      [] kind = "TinyBlob" -> <<"t","i","n","y","b","l","o","b">>
      [] kind = "TinyText" -> <<"t","i","n","y","t","e","x","t">>
      [] kind = "Text" -> <<"t","e","x","t">>
      [] kind = "Blob" -> <<"b","l","o","b">>
      [] kind = "MediumText" -> <<"m","e","d","i","u","m","t","e","x","t">>
      [] kind = "MediumBlob" -> <<"m","e","d","i","u","m","b","l","o","b">>
      [] kind = "LongText" -> <<"l","o","n","g","t","e","x","t">>
      [] kind = "LongBlob" -> <<"l","o","n","g","b","l","o","b">>
      [] kind = "Bit" -> <<"b","i","t">>
      [] kind = "TinyInt" -> <<"t","i","n","y","i","n","t">>
      [] kind = "Bool" -> <<"b","o","o","l">>
      [] kind = "Boolean" -> <<"b","o","o","l","e","a","n">>
      [] kind = "SmallInt" -> <<"s","m","a","l","l","i","n","t">>
      [] kind = "MediumInt" -> <<"m","e","d","i","u","m","i","n","t">>
      [] kind = "Int" -> <<"i","n","t">>
      [] kind = "BigInt" -> <<"b","i","g","i","n","t">>
      [] kind = "Float" -> <<"f","l","o","a","t">>
      [] kind = "Decimal" -> <<"d","e","c","m","i","m","a","l">>
      [] kind = "Date" -> <<"d","a","t","e">>
      [] kind = "DateTime" -> <<"d","a","t","e","t","i","m","e">>
      [] kind = "TimeStamp" -> <<"t","i","m","e","S","t","a","m","p">>
      [] kind = "Time" -> <<"t","i","m","e">>
      [] kind = "Year" -> <<"y","e","a","r">>

\* impl Display for AttributeType
AttributeType_fmt(t) ==
    IF t.p = <<>> THEN DisplayName(t.kind)
    ELSE DisplayName(t.kind) \o <<"(">>
            \o Join([k \in 1..Len(t.p) |-> FmtNat(t.p[k])], <<",">>) \o <<")">>

---------------------------------------------------------------------------
(* Constraint, Attribute, Table and the statement text made from them.     *)

NotNull == [kind |-> "NotNull"]
Unique == [kind |-> "Unique"]
AutoIncrement == [kind |-> "AutoIncrement"]
ForeignKey(t, a) == [kind |-> "ForeignKey", table_name |-> t, attribute_name |-> a]

\* impl PartialEq for Constraint: equal when the discriminants are equal
Constraint_eq(c, d) == c.kind = d.kind

\* the foreign-key targets the model draws from: (table_name, attribute_name)
Payloads == {<<<<"u">>, <<"i","d">>>>, <<<<"v">>, <<"i","d">>>>, <<<<"u">>, <<"k">>>>}

\* the hash bits a set looks at before it compares two values with ==
HashBits == {0, 1}

\* RandomState::new(): the keys a HashSet hashes with are drawn at random when
\* the set is created.  A state is given here by the bits it yields for each
\* foreign-key target
RandomStates == [Payloads -> HashBits]

\* #[derive(Hash)]: the discriminant and then every field are fed to the
\* hasher.  Values of one kind without fields always hash alike; two
\* ForeignKey values hash alike when their fields are equal and, when they
\* differ, only if the keyed hasher happens to yield the same bits
Constraint_hash(state, c) ==
    IF c.kind = "ForeignKey"
    THEN <<c.kind, state[<<c.table_name, c.attribute_name>>]>>
    ELSE <<c.kind>>

\* HashSet::insert: the value is not added when the set holds a value with
\* the same hash that compares equal
HashSet_insert(state, set, c) ==
    IF \E e \in set : Constraint_hash(state, e) = Constraint_hash(state, c) /\ Constraint_eq(e, c)
    THEN set
    ELSE set \cup {c}

Attribute(name, data_type, constraint) ==
    [name |-> name, data_type |-> data_type, constraint |-> constraint]

Table(name, attributes, primary_key) ==
    [name |-> name, attributes |-> attributes, primary_key |-> primary_key]

\* the fold of Table::insert over (column, value) pairs: each step prefixes
\* a comma, so both strings start with "," once a pair was folded
RECURSIVE InsertFold(_, _)
InsertFold(acc, pairs) ==
    IF pairs = <<>> THEN acc
    ELSE InsertFold(<<acc[1] \o <<",">> \o pairs[1][1], acc[2] \o <<",">> \o pairs[1][2]>>,
                    Tail(pairs))

\* the filter and map of Table::insert: the (column, value) pairs of the
\* attributes whose name is a key of the map, in the order of self.attributes
InsertPairs(self, vals) ==
    LET kept == SelectSeq(self.attributes, LAMBDA a : a.name \in DOMAIN vals)
    IN  [i \in 1..Len(kept) |-> <<kept[i].name, vals[kept[i].name]>>]

\* the end of Table::insert: None when both folded strings are empty, else
\* the statement made of both strings without their first character
InsertStatement(self, columns, vs) ==
    IF columns = <<>> /\ vs = <<>> THEN None
    ELSE Some(<<"I","N","S","E","R","T"," ","I","N","T","O"," ">> \o self.name \o <<"(">> \o SubSeq(columns, 2, Len(columns))
                \o <<")"," ","V","A","L","U","E","S"," ","(">> \o SubSeq(vs, 2, Len(vs)) \o <<")">>)

\* Table::insert with the fold prefixing each pair instead of appending it
insert_prepending(self, vals) ==
    LET pairs == InsertPairs(self, vals)
        folded == InsertFold(<< <<>>, <<>> >>, [i \in 1..Len(pairs) |-> pairs[Len(pairs) + 1 - i]])
    IN  InsertStatement(self, folded[1], folded[2])

\* Table::insert refusing a map that holds a key naming no attribute
insert_strict(self, vals) ==
    LET folded == InsertFold(<< <<>>, <<>> >>, InsertPairs(self, vals))
    IN  IF \E k \in DOMAIN vals : \A i \in 1..Len(self.attributes) : self.attributes[i].name # k
        THEN None
        ELSE InsertStatement(self, folded[1], folded[2])

\* Table::insert(&self, values): vals is the HashMap as a function from its
\* keys to their text
insert(self, vals) ==
    LET folded == InsertFold(<< <<>>, <<>> >>, InsertPairs(self, vals))
    IN  InsertStatement(self, folded[1], folded[2])

\* impl Display for Constraint
Constraint_fmt(c) ==
    CASE c.kind = "NotNull" -> <<"N","o","t"," ","N","u","l","l">>
      [] c.kind = "Unique" -> <<"U","n","i","q","u","e">>
      [] c.kind = "ForeignKey" -> c.table_name \o <<"(">> \o c.attribute_name \o <<")">>
      [] c.kind = "AutoIncrement" -> <<"A","u","t","o","_","i","n","c","r","e","m","e","n","t">>

\* the orders in which iterating a HashSet can yield its elements: the
\* hasher is seeded at random (RandomState), so every enumeration can occur
IterOrders(set) ==
    {o \in [1..Cardinality(set) -> set] : \A i, j \in 1..Cardinality(set) : o[i] = o[j] => i = j}

\* Display for Attribute writing a ForeignKey among the inline words, with
\* no trailing clause
Attribute_fmt_inline_foreign_key(self, order) ==
    LET constraints_vec == [i \in 1..Len(order) |-> Constraint_fmt(order[i])]
        constraint_str == Join(constraints_vec, <<" ">>)
    IN  IF Len(constraint_str) = 0
        THEN self.name \o <<" ">> \o AttributeType_fmt(self.data_type)
        ELSE self.name \o <<" ">> \o AttributeType_fmt(self.data_type)
                \o <<" ">> \o constraint_str

\* impl Display for Attribute, iterating self.constraint in the order `order`
Attribute_fmt(self, order) ==
    LET fks == SelectSeq(order, LAMBDA c : c.kind = "ForeignKey")
        foreign_key ==
            IF fks = <<>> THEN None
            ELSE Some(<<"F","O","R","E","I","G","N"," ","K","E","Y","(">> \o self.name \o <<")"," ","R","E","F","E","R","E","N","C","E","S"," ">>
                        \o Constraint_fmt(fks[Len(fks)]))
        words == SelectSeq(order, LAMBDA c : c.kind # "ForeignKey")
        constraints_vec == [i \in 1..Len(words) |-> Constraint_fmt(words[i])]
        constraint_str == Join(constraints_vec, <<" ">>)
        tmp == IF Len(constraint_str) = 0
               THEN self.name \o <<" ">> \o AttributeType_fmt(self.data_type)
               ELSE self.name \o <<" ">> \o AttributeType_fmt(self.data_type)
                        \o <<" ">> \o constraint_str
    IN  IF foreign_key.kind = "Some" THEN tmp \o <<","," ">> \o foreign_key.val ELSE tmp

\* one iteration order for the constraint set of each attribute
RECURSIVE OrderChoices(_)
OrderChoices(attributes) ==
    IF attributes = <<>> THEN {<<>>}
    ELSE {<<o>> \o rest : o \in IterOrders(Head(attributes).constraint),
                          rest \in OrderChoices(Tail(attributes))}

\* the separator Display for Table joins the attribute renderings with
AttrSeparator == <<",">>

\* the attribute renderings, joined as Display for Table joins them
JoinedAttributes(self, orders) ==
    Join([i \in 1..Len(self.attributes) |-> Attribute_fmt(self.attributes[i], orders[i])],
         AttrSeparator)

\* Display for Table naming the first attribute as the primary key, whatever
\* the index held by primary_key
Table_fmt_first_attribute(self, orders) ==
    IF self.primary_key.kind = "Some"
    THEN IF Len(self.attributes) = 0 THEN Abort
         ELSE Some(<<"C","R","E","A","T","E"," ","T","A","B","L","E"," ">> \o self.name \o <<" ","(">> \o JoinedAttributes(self, orders)
                    \o <<","," ","P","R","I","M","A","R","Y"," ","K","E","Y","(">> \o self.attributes[1].name \o <<")",")">>)
    ELSE Some(<<"C","R","E","A","T","E"," ","T","A","B","L","E"," ">> \o self.name \o <<" ","(">> \o JoinedAttributes(self, orders)
                \o <<")">>)

\* impl Display for Table (Table::create is self.to_string()); indexing
\* self.attributes out of range aborts
Table_fmt(self, orders) ==
    IF self.primary_key.kind = "Some"
    THEN IF self.primary_key.val >= Len(self.attributes) THEN Abort
         ELSE Some(<<"C","R","E","A","T","E"," ","T","A","B","L","E"," ">> \o self.name \o <<" ","(">> \o JoinedAttributes(self, orders)
                    \o <<","," ","P","R","I","M","A","R","Y"," ","K","E","Y","(">>
                    \o self.attributes[self.primary_key.val + 1].name \o <<")",")">>)
    ELSE Some(<<"C","R","E","A","T","E"," ","T","A","B","L","E"," ">> \o self.name \o <<" ","(">> \o JoinedAttributes(self, orders)
                \o <<")">>)

---------------------------------------------------------------------------
(* Reflection: Attribute::from_row and Table::from_db.                     *)
(*                                                                         *)
(* DataBase (crate::data_base) is outside this file; it is modelled by its *)
(* contract: from_env yields a handle or an error, execute sends one       *)
(* statement and maps each returned row through the callback, or returns   *)
(* an error when the statement fails (e.g. the table does not exist).      *)

Ok(v) == [kind |-> "Ok", val |-> v]
Err == [kind |-> "Err"]

\* a row of SHOW FULL COLUMNS: the fields the code reads (0, 1, 3, 4, 6)
Row(name, type, nullable, key, extra) ==
    [name |-> name, type |-> type, nullable |-> nullable, key |-> key, extra |-> extra]

\* DataBase::from_env
DataBase_from_env(e) == IF e = "ok" THEN Ok("db") ELSE Err

\* DataBase::execute for "SHOW FULL COLUMNS FROM <table>": the rows, or an
\* error when the table does not exist
execute_show_columns(d) == IF d.exists THEN Ok(d.rows) ELSE Err

\* DataBase::execute for "SHOW CREATE TABLE `<table>`;": one row, whose
\* field 1 is the definition text
execute_show_create(d) == IF d.exists THEN Ok(<<d.create>>) ELSE Err

ShowFullColumns(table_name) == <<"S","H","O","W"," ","F","U","L","L"," ","C","O","L","U","M","N","S"," ","F","R","O","M"," ">> \o table_name
ShowCreateTable(table_name) == <<"S","H","O","W"," ","C","R","E","A","T","E"," ","T","A","B","L","E"," ","BQ">> \o table_name \o <<"BQ",";">>

\* length of the longest run of [a-zA-Z0-9] of s from 1-based position pos
RECURSIVE AlnumRun(_, _)
AlnumRun(s, pos) ==
    IF pos <= Len(s) /\ IsAlnum(s[pos]) THEN 1 + AlnumRun(s, pos + 1) ELSE 0

\* the literal the foreign-key pattern of a column starts with
ForeignKeyHead(name) == <<"F","O","R","E","I","G","N"," ","K","E","Y"," ","(","BQ">> \o name \o <<"BQ",")"," ","R","E","F","E","R","E","N","C","E","S"," ","BQ">>

\* the pattern FOREIGN KEY \(`<name>`\) REFERENCES `([a-zA-Z0-9]+)` \(`([a-zA-Z0-9]+)`\)
\* at 0-based offset i of s, head being ForeignKeyHead(name).  The character
\* after each class is a backquote, which is outside the class, so only the
\* longest run can match.  (The column name is spliced into the pattern as it
\* is; the names used here hold letters and digits only, which the pattern
\* reads literally.)
ForeignKeyMatchAt(head, s, i) ==
    IF ~IsPrefixAt(head, s, i) THEN NoMatch
    ELSE LET p1 == i + Len(head) + 1
             r1 == AlnumRun(s, p1)
             mid == <<"BQ"," ","(","BQ">>
             p2 == p1 + r1 + Len(mid)
             r2 == AlnumRun(s, p2)
         IN  IF r1 = 0 \/ ~IsPrefixAt(mid, s, p1 + r1 - 1) THEN NoMatch
             ELSE IF r2 = 0 \/ ~IsPrefixAt(<<"BQ",")">>, s, p2 + r2 - 1) THEN NoMatch
             ELSE [kind |-> "Match",
                   caps |-> <<SubSeq(s, p1, p1 + r1 - 1), SubSeq(s, p2, p2 + r2 - 1)>>]

\* Regex::captures(&command): the leftmost match, or None
ForeignKeyCaptures(name, command) ==
    LET head == ForeignKeyHead(name)
        starts == {i \in 0..Len(command) : ForeignKeyMatchAt(head, command, i).kind = "Match"}
    IN  IF starts = {} THEN None
        ELSE Some(ForeignKeyMatchAt(head, command,
                    CHOOSE i \in starts : \A j \in starts : i <= j).caps)

\* the callback leaving out a row whose text holds no match
RECURSIVE ForeignKeyRows_skipping(_, _)
ForeignKeyRows_skipping(name, texts) ==
    IF texts = <<>> THEN Ok(<<>>)
    ELSE LET captures == ForeignKeyCaptures(name, Head(texts))
             rest == ForeignKeyRows_skipping(name, Tail(texts))
         IN  IF captures.kind = "None" THEN rest
             ELSE Ok(<<ForeignKey(captures.val[1], captures.val[2])>> \o rest.val)

\* the callback of the SHOW CREATE TABLE query, applied to each row in turn:
\* the constraints built, or Abort when captures(..).unwrap() finds no match
RECURSIVE ForeignKeyRows(_, _)
ForeignKeyRows(name, texts) ==
    IF texts = <<>> THEN Ok(<<>>)
    ELSE LET captures == ForeignKeyCaptures(name, Head(texts))
             rest == ForeignKeyRows(name, Tail(texts))
         IN  IF captures.kind = "None" THEN Abort
             ELSE IF rest.kind = "Abort" THEN Abort
             ELSE Ok(<<ForeignKey(captures.val[1], captures.val[2])>> \o rest.val)

\* tmp.insert(constraint.clone()) for each constraint of cs in turn
RECURSIVE InsertAll(_, _, _)
InsertAll(state, set, cs) ==
    IF cs = <<>> THEN set
    ELSE InsertAll(state, HashSet_insert(state, set, Head(cs)), Tail(cs))

\* the marker Attribute::from_row compares the extra field with
AutoIncMarker == <<"a","u","t","o","_","i","n","c","r","e","m","e","n","t">>

\* the test Attribute::from_row applies to the extra field (field 6)
IsAutoInc(extra) == extra = AutoIncMarker

\* the key-field branch sending its lookup for a "UNI" column as well
KeyConstraints_looking_up_unique(row, table_name, e, d) ==
    IF row.key = <<"U","N","I">>
    THEN [out |-> Ok(<<Unique>>), sent |-> <<ShowCreateTable(table_name)>>]
    ELSE IF row.key = <<"M","U","L">>
    THEN IF DataBase_from_env(e).kind = "Err"
         THEN [out |-> Abort, sent |-> <<>>]
         ELSE LET rows == execute_show_create(d)
                  built == IF rows.kind = "Err" THEN Abort
                           ELSE ForeignKeyRows(row.name, rows.val)
              IN  [out |-> IF built.kind = "Abort" THEN Abort ELSE Ok(built.val),
                   sent |-> <<ShowCreateTable(table_name)>>]
    ELSE [out |-> Ok(<<>>), sent |-> <<>>]

\* the key-field branch of Attribute::from_row: the constraints it inserts
\* into tmp, in order (out), and the statements it sent (sent)
KeyConstraints(row, table_name, e, d) ==
    IF row.key = <<"U","N","I">>
    THEN [out |-> Ok(<<Unique>>), sent |-> <<>>]
    ELSE IF row.key = <<"M","U","L">>
    THEN IF DataBase_from_env(e).kind = "Err"
         THEN [out |-> Abort, sent |-> <<>>]
         ELSE LET rows == execute_show_create(d)
                  built == IF rows.kind = "Err" THEN Abort
                           ELSE ForeignKeyRows(row.name, rows.val)
              IN  [out |-> IF built.kind = "Abort" THEN Abort ELSE Ok(built.val),
                   sent |-> <<ShowCreateTable(table_name)>>]
    ELSE [out |-> Ok(<<>>), sent |-> <<>>]

\* the constraint block of Attribute::from_row: HashSet::new() (with the
\* RandomState state), the inserts for nullable and extra, then the inserts of
\* the key-field branch
ConstraintBlock(state, row, keyed) ==
    LET tmp0 == {}
        tmp1 == IF row.nullable = <<"N","O">> THEN HashSet_insert(state, tmp0, NotNull) ELSE tmp0
        tmp2 == IF IsAutoInc(row.extra) THEN HashSet_insert(state, tmp1, AutoIncrement) ELSE tmp1
    IN  InsertAll(state, tmp2, keyed)

\* Attribute::from_row(row, table_name): the outcomes it can have, one for
\* each RandomState its HashSet can be created with.  In an outcome, out is
\* Some(attribute), None (the type is not recognized) or Abort; sent lists the
\* statements it executed
from_row(row, table_name, e, d) ==
    UNION {{IF data_type.kind = "None" THEN [out |-> None, sent |-> <<>>]
            ELSE IF data_type.kind = "Abort" THEN [out |-> Abort, sent |-> <<>>]
            ELSE IF keyed.out.kind = "Abort" THEN [out |-> Abort, sent |-> keyed.sent]
            ELSE [out |-> Some(Attribute(row.name, data_type.val,
                                         ConstraintBlock(state, row, keyed.out.val))),
                  sent |-> keyed.sent] : state \in RandomStates} :
           data_type \in {AttributeType_from(to_ascii_uppercase(row.type))},
           keyed \in {KeyConstraints(row, table_name, e, d)}}

\* the arm of the filter_map closure for a surviving row: a row flagged
\* primary records col_num, any other surviving row advances col_num
FilterArm(st, item) ==
    IF item[2]
    THEN [attributes |-> Append(st.attributes, item[1].val),
          col_num |-> st.col_num, primary_key |-> Some(st.col_num)]
    ELSE [attributes |-> Append(st.attributes, item[1].val),
          col_num |-> st.col_num + 1, primary_key |-> st.primary_key]

\* the filter_map with col_num advanced for the dropped rows as well
RECURSIVE FilterMap_counting_dropped(_, _)
FilterMap_counting_dropped(st, vec) ==
    IF vec = <<>> THEN st
    ELSE IF Head(vec)[1].kind = "None"
    THEN FilterMap_counting_dropped([st EXCEPT !.col_num = @ + 1], Tail(vec))
    ELSE FilterMap_counting_dropped(FilterArm(st, Head(vec)), Tail(vec))

\* the filter_map ending at the first dropped row
RECURSIVE FilterMap_until_dropped(_, _)
FilterMap_until_dropped(st, vec) ==
    IF vec = <<>> THEN st
    ELSE IF Head(vec)[1].kind = "None" THEN st
    ELSE FilterMap_until_dropped(FilterArm(st, Head(vec)), Tail(vec))

\* the filter_map of Table::from_db over Vec<(Option<Attribute>, bool)>
RECURSIVE FilterMap(_, _)
FilterMap(st, vec) ==
    IF vec = <<>> THEN st
    ELSE IF Head(vec)[1].kind = "None" THEN FilterMap(st, Tail(vec))
    ELSE FilterMap(FilterArm(st, Head(vec)), Tail(vec))

\* the Table that Table::from_db builds from the mapped rows
CollectTable(table_name, vec) ==
    LET st == FilterMap([attributes |-> <<>>, col_num |-> 0, primary_key |-> None], vec)
    IN  Table(table_name, st.attributes, st.primary_key)

---------------------------------------------------------------------------
(* Specification SpecParse: AttributeType::from applied to the upper-cased *)
(* text of a column-type declaration, as Attribute::from_row applies it.   *)

\* the size-less keywords of the vocabulary, with the variant of that name
Keywords == <<
    [text |-> <<"t","i","n","y","b","l","o","b">>, variant |-> "TinyBlob"],
    [text |-> <<"t","i","n","y","t","e","x","t">>, variant |-> "TinyText"],
    [text |-> <<"t","e","x","t">>, variant |-> "Text"],
    [text |-> <<"m","e","d","i","u","m","t","e","x","t">>, variant |-> "MediumText"],
    [text |-> <<"m","e","d","i","u","m","b","l","o","b">>, variant |-> "MediumBlob"],
    [text |-> <<"l","o","n","g","t","e","x","t">>, variant |-> "LongText"],
    [text |-> <<"l","o","n","g","b","l","o","b">>, variant |-> "LongBlob"],
    [text |-> <<"b","o","o","l">>, variant |-> "Bool"],
    [text |-> <<"b","o","o","l","e","a","n">>, variant |-> "Boolean"],
    [text |-> <<"d","a","t","e">>, variant |-> "Date"],
    [text |-> <<"d","a","t","e","t","i","m","e">>, variant |-> "DateTime"],
    [text |-> <<"t","i","m","e","s","t","a","m","p">>, variant |-> "TimeStamp"],
    [text |-> <<"t","i","m","e">>, variant |-> "Time"],
    [text |-> <<"y","e","a","r">>, variant |-> "Year"] >>

\* the keywords declared with one size, with the variant of that name
SizedKeywords == <<
    [text |-> <<"c","h","a","r">>, variant |-> "Char"],
    [text |-> <<"v","a","r","c","h","a","r">>, variant |-> "VarChar"],
    [text |-> <<"b","i","n","a","r","y">>, variant |-> "Binary"],
    [text |-> <<"v","a","r","b","i","n","a","r","y">>, variant |-> "VarBinary"],
    [text |-> <<"b","l","o","b">>, variant |-> "Blob"],
    [text |-> <<"b","i","t">>, variant |-> "Bit"],
    [text |-> <<"t","i","n","y","i","n","t">>, variant |-> "TinyInt"],
    [text |-> <<"s","m","a","l","l","i","n","t">>, variant |-> "SmallInt"],
    [text |-> <<"m","e","d","i","u","m","i","n","t">>, variant |-> "MediumInt"],
    [text |-> <<"i","n","t">>, variant |-> "Int"],
    [text |-> <<"i","n","t","e","g","e","r">>, variant |-> "Int"],
    [text |-> <<"b","i","g","i","n","t">>, variant |-> "BigInt"],
    [text |-> <<"f","l","o","a","t">>, variant |-> "Float"] >>

\* a declaration with one size, e.g. int(11)
Sized(keyword, n) == keyword \o <<"(">> \o FmtNat(n) \o <<")">>

\* the sizes declarations are drawn with: every 8-bit value, the first value
\* beyond it, and the values around the 16-bit limit
Widths == (0..(U8Max + 1)) \cup {U16Max, U16Max + 1}

DecimalSizes == {0, 2, 10, U8Max, U8Max + 1}

Declarations ==
    {Keywords[k].text : k \in 1..Len(Keywords)}
    \cup {Sized(SizedKeywords[k].text, n) : k \in 1..Len(SizedKeywords), n \in Widths}
    \cup {<<"d","e","c","i","m","a","l","(">> \o FmtNat(p) \o <<",">> \o FmtNat(s) \o <<")">> : p, s \in DecimalSizes}
    \cup {<<"g","e","o","m","e","t","r","y">>, <<"j","s","o","n">>, <<"i","n","t">>, <<"i","n","t","(","1","0",")"," ","u","n","s","i","g","n","e","d">>, <<"i","n","t","(","0","0","7",")">>,
          <<"e","n","u","m","(","'","a","'",",","'","b","'",")">>, <<"d","o","u","b","l","e">>, <<>>}

InitParse ==
    /\ raw_str \in {to_ascii_uppercase(d) : d \in Declarations}
    /\ parsed = Pending
    /\ table = Idle /\ values = Idle /\ iter_order = Idle /\ stmt = Idle
    /\ env = Idle /\ db = Idle /\ pc = Idle /\ attr = Idle /\ queries = Idle
    /\ result = Idle
    /\ constraint_set = Idle /\ hasher = Idle

Parse ==
    /\ parsed = Pending
    /\ parsed' = AttributeType_from(raw_str)
    /\ UNCHANGED <<raw_str, table, values, iter_order, stmt, env, db, pc, attr, queries, result, constraint_set, hasher>>

NextParse == Parse

SpecParse == InitParse /\ [][NextParse]_vars

---------------------------------------------------------------------------
(* Specification SpecInsert: Table::insert on a table and a value map.     *)

MaxAttrs == 3

TextType == AttrType("Text", <<>>)
IntType == AttrType("Int", <<16>>)
VarCharType == AttrType("VarChar", <<255>>)

\* sequences over S of length 0..n
RECURSIVE SeqsUpTo(_, _)
SeqsUpTo(S, n) ==
    IF n = 0 THEN {<<>>}
    ELSE LET shorter == SeqsUpTo(S, n - 1)
         IN  shorter \cup {Append(s, x) : s \in {t \in shorter : Len(t) = n - 1}, x \in S}

InsertAttributes ==
    {Attribute(<<"i","d">>, IntType, {}), Attribute(<<"n">>, VarCharType, {}),
     Attribute(<<"c">>, VarCharType, {})}

InsertTables ==
    {Table(<<"t","a","b","l","e","_","1">>, attrs, None) : attrs \in SeqsUpTo(InsertAttributes, MaxAttrs)}

\* keys of the value maps: the column names and one name of no column
MapKeys == {<<"i","d">>, <<"n">>, <<"c">>, <<"z","z">>}
MapTexts == {<<"2","3">>, <<"'","a",",","b","'">>}

ValueMaps == UNION {[K -> MapTexts] : K \in SUBSET MapKeys}

InitInsert ==
    /\ table \in InsertTables
    /\ values = Pending /\ stmt = Pending
    /\ iter_order = Idle
    /\ raw_str = Idle /\ parsed = Idle
    /\ env = Idle /\ db = Idle /\ pc = Idle /\ attr = Idle /\ queries = Idle
    /\ result = Idle
    /\ constraint_set = Idle /\ hasher = Idle

Insert ==
    /\ stmt = Pending
    /\ \E v \in ValueMaps :
        /\ values' = v
        /\ stmt' = insert(table, v)
    /\ UNCHANGED <<raw_str, parsed, table, iter_order, env, db, pc, attr, queries, result, constraint_set, hasher>>

NextInsert == Insert

SpecInsert == InitInsert /\ [][NextInsert]_vars

---------------------------------------------------------------------------
(* Specification SpecCreate: Table::create (Display for Table).  The       *)
(* tables satisfy the documented meaning of primary_key: an index into     *)
(* attributes when present.                                                *)

MaxCols == 2

Target == ForeignKey(<<"u">>, <<"i","d">>)
OtherTable == ForeignKey(<<"v">>, <<"i","d">>)
OtherAttribute == ForeignKey(<<"u">>, <<"k">>)

ConstraintSets ==
    {{}, {NotNull}, {NotNull, Unique}, {AutoIncrement}, {Target}, {AutoIncrement, Target}}

CreateAttributes ==
    {Attribute(<<"a","t","t","r","_","1">>, TextType, cs) : cs \in ConstraintSets}
    \cup {Attribute(<<"a","t","t","r","_","2">>, IntType, cs) : cs \in ConstraintSets}

CreateTables ==
    {Table(<<"t","a","b","l","e","_","1">>, attrs, pk) :
        attrs \in SeqsUpTo(CreateAttributes, MaxCols),
        pk \in {None} \cup {Some(i) : i \in 0..(MaxCols - 1)}}

InitCreate ==
    /\ table \in {t \in CreateTables :
                    t.primary_key.kind = "Some" => t.primary_key.val < Len(t.attributes)}
    /\ iter_order = Pending /\ stmt = Pending
    /\ values = Idle
    /\ raw_str = Idle /\ parsed = Idle
    /\ env = Idle /\ db = Idle /\ pc = Idle /\ attr = Idle /\ queries = Idle
    /\ result = Idle
    /\ constraint_set = Idle /\ hasher = Idle

Create ==
    /\ stmt = Pending
    /\ \E orders \in OrderChoices(table.attributes) :
        /\ iter_order' = orders
        /\ stmt' = Table_fmt(table, orders)
    /\ UNCHANGED <<raw_str, parsed, table, values, env, db, pc, attr, queries, result, constraint_set, hasher>>

NextCreate == Create

SpecCreate == InitCreate /\ [][NextCreate]_vars

---------------------------------------------------------------------------
(* Specification SpecSet: insertions into the constraint set of an         *)
(* Attribute (the field is public), starting from HashSet::new().          *)

\* the constraints inserted: each kind, and foreign keys that differ in the
\* referenced table or in the referenced attribute
ConstraintPool == {NotNull, Unique, AutoIncrement, Target, OtherTable, OtherAttribute}

InitSet ==
    /\ constraint_set = {}
    /\ hasher \in RandomStates
    /\ raw_str = Idle /\ parsed = Idle
    /\ table = Idle /\ values = Idle /\ iter_order = Idle /\ stmt = Idle
    /\ env = Idle /\ db = Idle /\ pc = Idle /\ attr = Idle /\ queries = Idle
    /\ result = Idle

\* attribute.constraint.insert(c)
InsertConstraint ==
    /\ \E c \in ConstraintPool : constraint_set' = HashSet_insert(hasher, constraint_set, c)
    /\ UNCHANGED <<raw_str, parsed, table, values, iter_order, stmt, env, db, pc, attr, queries, result, hasher>>

NextSet == InsertConstraint

SpecSet == InitSet /\ [][NextSet]_vars

---------------------------------------------------------------------------
(* Specification Spec: one call of Table::from_db(table_name) against a    *)
(* database, row by row.  SpecRow is the same call on one-column tables,   *)
(* with every combination of the fields Attribute::from_row reads.         *)

MaxRows == 3

TableName == <<"t">>

\* the name of the i-th column
ColName(i) == <<"c">> \o FmtNat(i)

\* the FOREIGN KEY clause SHOW CREATE TABLE prints for a column
FkClause(col, ref_table, ref_attr) ==
    <<"C","O","N","S","T","R","A","I","N","T"," ">> \o <<"F","O","R","E","I","G","N"," ","K","E","Y"," ","(","BQ">> \o col \o <<"BQ",")"," ","R","E","F","E","R","E","N","C","E","S"," ","BQ">> \o ref_table
        \o <<"BQ"," ","(","BQ">> \o ref_attr \o <<"BQ",")">>

\* definition texts: every column c1..cn is a foreign key to `u` (`id`)
FkText(n) ==
    <<"C","R","E","A","T","E"," ","T","A","B","L","E"," ","BQ","t","BQ"," ","(">> \o Join([i \in 1..n |-> FkClause(ColName(i), <<"u">>, <<"i","d">>)], <<",">>)
        \o <<")">>

\* a definition text with a plain index and no foreign key
PlainText == <<"C","R","E","A","T","E"," ","T","A","B","L","E"," ","BQ","t","BQ"," ","(","K","E","Y"," ","BQ","c","1","BQ"," ","(","BQ","c","1","BQ",")",")">>

\* a foreign key whose referenced table name holds an underscore
UnderscoreText == <<"C","R","E","A","T","E"," ","T","A","B","L","E"," ","BQ","t","BQ"," ","(">> \o FkClause(ColName(1), <<"u","_","1">>, <<"i","d">>) \o <<")">>

KeyValues == {<<>>, <<"P","R","I">>, <<"U","N","I">>, <<"M","U","L">>}

\* rows of Spec: a recognized type with each key value, an unrecognized type
\* with the key values "", "PRI" and "MUL", and a row the executor fails on
RowPool ==
    {Ok([type |-> <<"i","n","t","(","1","1",")">>, nullable |-> IF k = <<"P","R","I">> THEN <<"N","O">> ELSE <<"Y","E","S">>,
         key |-> k, extra |-> <<>>]) : k \in KeyValues}
    \cup {Ok([type |-> <<"g","e","o","m","e","t","r","y">>, nullable |-> <<"Y","E","S">>, key |-> k, extra |-> <<>>]) :
            k \in {<<>>, <<"P","R","I">>, <<"M","U","L">>}}
    \cup {Err}

\* rows of SpecRow: every combination of type, nullability, key and extra
RowPoolFull ==
    {Ok([type |-> ty, nullable |-> nl, key |-> k, extra |-> ex]) :
        ty \in {<<"i","n","t","(","1","1",")">>, <<"g","e","o","m","e","t","r","y">>, <<"v","a","r","c","h","a","r","(","4","5",")">>},
        nl \in {<<"Y","E","S">>, <<"N","O">>},
        k \in KeyValues,
        ex \in {<<>>, <<"a","u","t","o","_","i","n","c","r","e","m","e","n","t">>, <<"a","u","t","o","_","i","n","c","r","e","m","e","n","t"," ","I","N","V","I","S","I","B","L","E">>,
                <<"o","n"," ","u","p","d","a","t","e"," ","C","U","R","R","E","N","T","_","T","I","M","E","S","T","A","M","P">>}}

\* the rows as the executor delivers them: the i-th row names column ci
Named(rows) ==
    [i \in 1..Len(rows) |->
        IF rows[i].kind = "Err" THEN Err
        ELSE Ok(Row(ColName(i), rows[i].val.type, rows[i].val.nullable,
                    rows[i].val.key, rows[i].val.extra))]

Missing == [exists |-> FALSE, rows |-> <<>>, create |-> <<>>]

Databases ==
    {Missing} \cup
    {[exists |-> TRUE, rows |-> Named(rows), create |-> text] :
        rows \in SeqsUpTo(RowPool, MaxRows),
        text \in {FkText(MaxRows), PlainText, UnderscoreText}}

DatabasesOneRow ==
    {Missing} \cup
    {[exists |-> TRUE, rows |-> Named(<<row>>), create |-> text] :
        row \in RowPoolFull, text \in {FkText(1), PlainText, UnderscoreText}}

InitWith(dbs) ==
    /\ env \in {"ok", "err"}
    /\ db \in dbs
    /\ pc = "start"
    /\ attr = <<>>
    /\ queries = <<>>
    /\ result = Pending
    /\ raw_str = Idle /\ parsed = Idle
    /\ table = Idle /\ values = Idle /\ iter_order = Idle /\ stmt = Idle
    /\ constraint_set = Idle /\ hasher = Idle

Init == InitWith(Databases)

InitRow == InitWith(DatabasesOneRow)

\* DataBase::from_env() and the SHOW FULL COLUMNS query: None when from_env
\* fails; the unwrap of a failed query aborts.  (SQL::new accepts the
\* statement text, which is fixed up to the table name.)
Connect ==
    /\ pc = "start"
    /\ IF DataBase_from_env(env).kind = "Err"
       THEN /\ result' = None
            /\ pc' = "done"
            /\ UNCHANGED queries
       ELSE /\ queries' = Append(queries, ShowFullColumns(TableName))
            /\ IF execute_show_columns(db).kind = "Err"
               THEN result' = Abort /\ pc' = "done"
               ELSE result' = Pending /\ pc' = "rows"
    /\ UNCHANGED <<raw_str, parsed, table, values, iter_order, stmt, env, db, attr, constraint_set, hasher>>

\* the closure of the SHOW FULL COLUMNS query on the next row: todo!() on a
\* row error, else (Attribute::from_row(column, table_name), key == "PRI")
LoadRow ==
    /\ pc = "rows"
    /\ Len(attr) < Len(db.rows)
    /\ LET row == db.rows[Len(attr) + 1]
       IN  IF row.kind = "Err"
           THEN /\ result' = Abort /\ pc' = "done"
                /\ UNCHANGED <<attr, queries>>
           ELSE \E built \in from_row(row.val, TableName, env, db) :
                LET primary_key_str == row.val.key
                IN  /\ queries' = queries \o built.sent
                    /\ IF built.out.kind = "Abort"
                       THEN result' = Abort /\ pc' = "done" /\ UNCHANGED attr
                       ELSE /\ attr' = Append(attr, <<built.out, primary_key_str = <<"P","R","I">>>>)
                            /\ UNCHANGED <<result, pc>>
    /\ UNCHANGED <<raw_str, parsed, table, values, iter_order, stmt, env, db, constraint_set, hasher>>

\* after the last row: the filter_map and the Table returned
Collect ==
    /\ pc = "rows"
    /\ Len(attr) = Len(db.rows)
    /\ result' = Some(CollectTable(TableName, attr))
    /\ pc' = "done"
    /\ UNCHANGED <<raw_str, parsed, table, values, iter_order, stmt, env, db, attr, queries, constraint_set, hasher>>

Next == Connect \/ LoadRow \/ Collect

Spec == Init /\ [][Next]_vars

SpecRow == InitRow /\ [][Next]_vars

---------------------------------------------------------------------------
(* Properties of Table::insert (SpecInsert).                               *)

\* the names of the attributes of t that are keys of the map v, in the order
\* of t.attributes
ListedColumns(t, v) ==
    SelectSeq([i \in 1..Len(t.attributes) |-> t.attributes[i].name],
              LAMBDA n : n \in DOMAIN v)

\* C1: the statement insert returns lists exactly the attributes whose name
\* is a key of the map, in declaration order, the i-th value being the map's
\* text for the i-th listed column, in the form
\* INSERT INTO <name>(<col_1>,...) VALUES (<val_1>,...)
C1_InsertListsKeyedColumns ==
    stmt.kind = "Some" =>
        LET cols == ListedColumns(table, values)
        IN  stmt.val = <<"I","N","S","E","R","T"," ","I","N","T","O"," ">> \o table.name \o <<"(">> \o Join(cols, <<",">>)
                        \o <<")"," ","V","A","L","U","E","S"," ","(">>
                        \o Join([i \in 1..Len(cols) |-> values[cols[i]]], <<",">>) \o <<")">>

\* a statement listing two or more columns of a table that starts with a
\* column other than id and has a column the map leaves out, from a map that
\* also holds a key naming no column
C1_Witness ==
    /\ stmt.kind = "Some"
    /\ Len(ListedColumns(table, values)) >= 2
    /\ table.attributes[1].name # <<"i","d">>
    /\ \E i \in 1..Len(table.attributes) : table.attributes[i].name \notin DOMAIN values
    /\ <<"z","z">> \in DOMAIN values

\* C2: insert returns None exactly when no attribute name is a key of the
\* map, and a statement in every other case
C2_InsertNoneIffNoKeyedColumn ==
    stmt # Pending =>
        /\ stmt.kind \in {"None", "Some"}
        /\ stmt = None <=>
            \A i \in 1..Len(table.attributes) : table.attributes[i].name \notin DOMAIN values

\* None from a table with attributes and a non-empty map of unknown keys
C2_Witness ==
    /\ stmt = None
    /\ Len(table.attributes) > 0
    /\ DOMAIN values = {<<"z","z">>}

---------------------------------------------------------------------------
(* Properties of Table::create (SpecCreate).                               *)

\* the table of tests::create_test_1
CreateTest1 ==
    Table(<<"t","a","b","l","e","_","1">>, <<Attribute(<<"a","t","t","r","_","1">>, TextType, {NotNull, Unique})>>, Some(0))

\* C3: for the constraint set {NotNull, Unique} create always yields
\* "CREATE TABLE table_1 (attr_1 text Unique Not Null, PRIMARY KEY(attr_1))"
C3_UniqueBeforeNotNull ==
    (table = CreateTest1 /\ stmt # Pending) =>
        stmt = Some(<<"C","R","E","A","T","E"," ","T","A","B","L","E"," ","t","a","b","l","e","_","1"," ","(","a","t","t","r","_","1"," ","t","e","x","t"," ","U","n","i","q","u","e"," ","N","o","t"," ","N","u","l","l",","," ","P","R","I","M","A","R","Y"," ","K","E","Y","(","a","t","t","r","_","1",")",")">>)

\* the text create yields with the attribute renderings joined by sep
CreateForm(t, orders, sep) ==
    <<"C","R","E","A","T","E"," ","T","A","B","L","E"," ">> \o t.name \o <<" ","(">>
        \o Join([i \in 1..Len(t.attributes) |-> Attribute_fmt(t.attributes[i], orders[i])], sep)
        \o (IF t.primary_key.kind = "Some"
            THEN <<","," ","P","R","I","M","A","R","Y"," ","K","E","Y","(">> \o t.attributes[t.primary_key.val + 1].name \o <<")">>
            ELSE <<>>)
        \o <<")">>

\* C4 as stated: the attribute renderings are separated by a comma and a space
C4_CommaSpaceSeparated ==
    stmt # Pending => stmt = Some(CreateForm(table, iter_order, <<","," ">>))

\* C4 amended: create renders "CREATE TABLE <name> (", the attribute
\* renderings in declaration order separated by a comma alone, then
\* ", PRIMARY KEY(<n>)" with <n> the name of attributes[primary_key] exactly
\* when primary_key is present, then ")"
C4_CommaSeparated ==
    stmt # Pending => stmt = Some(CreateForm(table, iter_order, <<",">>))

\* create on a table of two attributes whose primary key is the second
C4_Witness ==
    /\ stmt.kind = "Some"
    /\ Len(table.attributes) >= 2
    /\ table.primary_key = Some(1)
    /\ table.attributes[1].name # table.attributes[2].name

\* the word of an inline constraint
InlineWord(c) ==
    CASE c = NotNull -> <<"N","o","t"," ","N","u","l","l">>
      [] c = Unique -> <<"U","n","i","q","u","e">>
      [] c = AutoIncrement -> <<"A","u","t","o","_","i","n","c","r","e","m","e","n","t">>

\* the rendering C16 states for attribute a, its constraints taken in the
\* order `order`: "<name> <type>", a space and the inline words when there
\* are any, then the foreign-key clause when a holds a ForeignKey
AttributeForm(a, order) ==
    LET inline == SelectSeq(order, LAMBDA c : c \in {NotNull, Unique, AutoIncrement})
        fks == {c \in a.constraint : c.kind = "ForeignKey"}
    IN  a.name \o <<" ">> \o AttributeType_fmt(a.data_type)
            \o (IF inline = <<>> THEN <<>>
                ELSE <<" ">> \o Join([i \in 1..Len(inline) |-> InlineWord(inline[i])], <<" ">>))
            \o (IF fks = {} THEN <<>>
                ELSE LET fk == CHOOSE c \in fks : TRUE
                     IN  <<","," ","F","O","R","E","I","G","N"," ","K","E","Y","(">> \o a.name \o <<")"," ","R","E","F","E","R","E","N","C","E","S"," ">>
                            \o fk.table_name \o <<"(">> \o fk.attribute_name \o <<")">>)

\* C16: each attribute of the statement create yields is rendered as
\* "<name> <type>", then a space and the space-joined words of its NotNull /
\* Unique / AutoIncrement constraints when it has any, then
\* ", FOREIGN KEY(<name>) REFERENCES <table>(<attribute>)" exactly when it
\* has a ForeignKey, which never appears among the inline words
C16_AttributeRendering ==
    stmt # Pending =>
        stmt = Some(<<"C","R","E","A","T","E"," ","T","A","B","L","E"," ">> \o table.name \o <<" ","(">>
                    \o Join([i \in 1..Len(table.attributes) |->
                                AttributeForm(table.attributes[i], iter_order[i])], AttrSeparator)
                    \o (IF table.primary_key.kind = "Some"
                        THEN <<","," ","P","R","I","M","A","R","Y"," ","K","E","Y","(">>
                                \o table.attributes[table.primary_key.val + 1].name \o <<")">>
                        ELSE <<>>)
                    \o <<")">>)

\* a statement for an attribute whose only constraint is a ForeignKey and an
\* attribute with an inline constraint and a ForeignKey
C16_Witness ==
    /\ stmt.kind = "Some"
    /\ Len(table.attributes) = 2
    /\ table.attributes[1].constraint = {Target}
    /\ table.attributes[2].constraint = {AutoIncrement, Target}

---------------------------------------------------------------------------
(* Properties of Table::from_db (Spec, SpecRow).                           *)

\* C5: from_db returns None when the table does not exist, in no other
\* situation, and Some(Table) for an existing table
C5_NoneIffTableMissing ==
    pc = "done" =>
        /\ ~db.exists => result = None
        /\ result = None => ~db.exists
        /\ db.exists => result.kind = "Some"

\* the raw type of a delivered row is recognized
Recognized(row) == AttributeType_from(to_ascii_uppercase(row.val.type)).kind = "Some"

\* C6: the Table returned has primary_key absent or below the length of
\* attributes, and absent when every row flagged PRI has an unrecognized type
C6_PrimaryKeyInRange ==
    result.kind = "Some" =>
        /\ result.val.primary_key.kind = "Some" =>
                result.val.primary_key.val < Len(result.val.attributes)
        /\ (\A i \in 1..Len(db.rows) : db.rows[i].val.key = <<"P","R","I">> => ~Recognized(db.rows[i]))
                => result.val.primary_key = None

\* a Table with a dropped row, whose primary key is its last attribute and
\* not its first
C6_Witness ==
    /\ result.kind = "Some"
    /\ Len(result.val.attributes) < Len(db.rows)
    /\ result.val.primary_key.kind = "Some"
    /\ result.val.primary_key.val >= 1
    /\ result.val.primary_key.val = Len(result.val.attributes) - 1

\* the mapped rows that carry an attribute
Surviving == SelectSeq(attr, LAMBDA item : item[1].kind = "Some")

\* C7: when primary_key is Some(i), attributes[i] is the attribute built from
\* a row flagged PRI
C7_PrimaryKeyIsPriRow ==
    (result.kind = "Some" /\ result.val.primary_key.kind = "Some") =>
        LET i == result.val.primary_key.val
        IN  /\ i < Len(Surviving)
            /\ Surviving[i + 1][2]
            /\ result.val.attributes[i + 1] = Surviving[i + 1][1].val

\* the outcome of AttributeType::from on the raw type of a delivered row
RowType(row) == AttributeType_from(to_ascii_uppercase(row.val.type))

\* C12: the attributes of the Table returned are the rows with a recognized
\* type, one attribute per such row, in the rows' order, with the row's name
\* and what Attribute::from_row builds from that row alone; a row with an
\* unrecognized type is left out and is never the row a call aborts on
C12_AttributesAreRecognizedRows ==
    /\ result.kind = "Some" =>
            LET kept == SelectSeq(db.rows, Recognized)
                attributes == result.val.attributes
            IN  /\ Len(attributes) = Len(kept)
                /\ \A i \in 1..Len(kept) :
                        /\ attributes[i].name = kept[i].val.name
                        /\ attributes[i].data_type = RowType(kept[i]).val
                        /\ Some(attributes[i]) \in
                                {o.out : o \in from_row(kept[i].val, TableName, env, db)}
    /\ (pc = "done" /\ result = Abort /\ Len(attr) < Len(db.rows)) =>
            \/ db.rows[Len(attr) + 1].kind = "Err"
            \/ RowType(db.rows[Len(attr) + 1]).kind # "None"

\* a Table of two attributes built from three rows, the second of which has
\* an unrecognized type
C12_Witness ==
    /\ result.kind = "Some"
    /\ Len(db.rows) = 3
    /\ ~Recognized(db.rows[2])
    /\ Len(result.val.attributes) = 2
    /\ result.val.attributes[2].name = ColName(3)

\* the text s holds the text lit somewhere
Contains(s, lit) == \E i \in 0..Len(s) : IsPrefixAt(lit, s, i)

\* names of letters and digits a foreign key can reference
ReferenceNames == {<<"u">>, <<"i","d">>}

\* the definition text holds a clause
\* FOREIGN KEY (`<col>`) REFERENCES `<table>` (`<attribute>`)
HasForeignKeyClause(col, text) ==
    \E t, a \in ReferenceNames :
        Contains(text, <<"F","O","R","E","I","G","N"," ","K","E","Y"," ","(","BQ">> \o col \o <<"BQ",")"," ","R","E","F","E","R","E","N","C","E","S"," ","BQ">> \o t
                        \o <<"BQ"," ","(","BQ">> \o a \o <<"BQ",")">>)

\* row i is delivered with a recognized type and key "MUL", and the
\* definition text holds no foreign-key clause for its column
UnmatchedMul(i) ==
    /\ db.rows[i].kind = "Ok"
    /\ db.rows[i].val.key = <<"M","U","L">>
    /\ Recognized(db.rows[i])
    /\ ~HasForeignKeyClause(db.rows[i].val.name, db.create)

\* C14: when a column with a recognized type has key "MUL" and the definition
\* text holds no foreign-key clause for it, a call that reaches the database
\* aborts: it returns no Table, with or without that attribute
C14_UnmatchedMulAborts ==
    (pc = "done" /\ env = "ok" /\ \E i \in 1..Len(db.rows) : UnmatchedMul(i))
        => result = Abort

\* a call aborted on its third row, a "MUL" column of a table whose
\* definition text holds a plain index and no foreign key, after two rows
\* were mapped and the lookup was sent
C14_Witness ==
    /\ result = Abort
    /\ db.create = PlainText
    /\ Len(attr) = 2
    /\ Len(db.rows) = 3
    /\ UnmatchedMul(3)
    /\ queries = <<ShowFullColumns(TableName), ShowCreateTable(TableName)>>

\* the rows the call has handed to its row closure so far: the mapped ones,
\* and the one it aborted on
RowsProcessed ==
    IF result = Abort /\ Len(attr) < Len(db.rows) THEN Len(attr) + 1 ELSE Len(attr)

\* the column query followed by one lookup for each processed row that counts
QueriesFor(counts(_)) ==
    <<ShowFullColumns(TableName)>>
        \o [k \in 1..Cardinality({i \in 1..RowsProcessed : counts(i)}) |-> ShowCreateTable(TableName)]

\* row i is delivered with key "MUL"
IsMul(i) == db.rows[i].kind = "Ok" /\ db.rows[i].val.key = <<"M","U","L">>

\* C15 as stated: a call sends the column query and then one lookup for each
\* column whose key is "MUL", each lookup while its own row is processed
C15_LookupPerMulColumn ==
    (pc # "start" /\ env = "ok") => queries = QueriesFor(IsMul)

\* C15 amended: a call that obtains a connection sends the column query and
\* then one lookup for each column whose key is "MUL" and whose type is
\* recognized, each lookup while its own row is processed and before the next
\* row; a "MUL" column with an unrecognized type sends none; a call whose
\* connection fails sends nothing
C15_LookupPerRecognizedMulColumn ==
    /\ (pc # "start" /\ env = "ok") =>
            queries = QueriesFor(LAMBDA i : IsMul(i) /\ Recognized(db.rows[i]))
    /\ env = "err" => queries = <<>>

\* a completed call on three columns, two of them "MUL", one of these with
\* an unrecognized type: two queries
C15_Witness ==
    /\ result.kind = "Some"
    /\ Len(db.rows) = 3
    /\ Cardinality({i \in 1..3 : IsMul(i)}) = 2
    /\ \E i \in 1..3 : IsMul(i) /\ ~Recognized(db.rows[i])
    /\ Len(queries) = 2

---------------------------------------------------------------------------
(* Properties of AttributeType::from (SpecParse).                          *)

\* C8: each size-less keyword, upper-cased, parses to the variant of its name
C8_KeywordParsesToItsVariant ==
    parsed # Pending =>
        \A k \in 1..Len(Keywords) :
            raw_str = to_ascii_uppercase(Keywords[k].text)
                => parsed = Some(AttrType(Keywords[k].variant, <<>>))

\* the keywords of the integer family
IntegerFamily ==
    {k \in 1..Len(SizedKeywords) :
        SizedKeywords[k].text \in {<<"t","i","n","y","i","n","t">>, <<"s","m","a","l","l","i","n","t">>, <<"m","e","d","i","u","m","i","n","t">>, <<"i","n","t">>,
                                   <<"i","n","t","e","g","e","r">>, <<"b","i","g","i","n","t">>}}

\* C9: for every width n in 0..255 each declaration of the integer family,
\* upper-cased, parses to its variant carrying n
C9_IntegerFamilyParses ==
    parsed # Pending =>
        \A k \in IntegerFamily :
            \* (the widths are compared only for the keyword raw_str starts with)
            IsPrefixAt(to_ascii_uppercase(SizedKeywords[k].text \o <<"(">>), raw_str, 0) =>
                \A n \in 0..U8Max :
                    raw_str = to_ascii_uppercase(Sized(SizedKeywords[k].text, n))
                        => parsed = Some(AttrType(SizedKeywords[k].variant, <<n>>))

\* C13: a variant AttributeType::from returns, rendered by Display,
\* upper-cased and parsed again, gives the same variant with the same
\* numeric parameters
C13_DisplayRoundTrip ==
    parsed.kind = "Some" =>
        AttributeType_from(to_ascii_uppercase(AttributeType_fmt(parsed.val))) = parsed

\* the largest parameter each sized keyword takes according to C17: 8 bits,
\* and 16 bits for VARCHAR, VARBINARY and BLOB
ParameterLimit(keyword) ==
    IF keyword \in {<<"V","A","R","C","H","A","R">>, <<"V","A","R","B","I","N","A","R","Y">>, <<"B","L","O","B">>} THEN U16Max ELSE U8Max

\* the parameters of raw when it is <keyword>(<digits>) or
\* <keyword>(<digits>,<digits>), and <<>> when it is not
RECURSIVE SplitAtComma(_)
SplitAtComma(s) ==
    IF \E k \in 1..Len(s) : s[k] = ","
    THEN LET k == CHOOSE k \in 1..Len(s) : s[k] = "," /\ \A j \in 1..(k - 1) : s[j] # ","
         IN  <<SubSeq(s, 1, k - 1)>> \o SplitAtComma(SubSeq(s, k + 1, Len(s)))
    ELSE <<s>>

ParametersOf(keyword, raw) ==
    IF /\ IsPrefixAt(keyword \o <<"(">>, raw, 0)
       /\ Len(raw) > Len(keyword) + 2
       /\ raw[Len(raw)] = ")"
    THEN LET parts == SplitAtComma(SubSeq(raw, Len(keyword) + 2, Len(raw) - 1))
         IN  IF \A k \in 1..Len(parts) :
                    parts[k] # <<>> /\ \A j \in 1..Len(parts[k]) : IsDigit(parts[k][j])
             THEN [k \in 1..Len(parts) |-> DigitsValue(parts[k])]
             ELSE <<>>
    ELSE <<>>

\* the keywords declared with sizes, upper-cased
SizedNames ==
    {to_ascii_uppercase(SizedKeywords[k].text) : k \in 1..Len(SizedKeywords)}
        \cup {<<"D","E","C","I","M","A","L">>}

\* C17: a sized declaration that matches a pattern at offset 0 and has a
\* parameter above the limit of its width type (255, or 65535 for VARCHAR,
\* VARBINARY and BLOB) makes AttributeType::from abort: it yields neither
\* none nor any variant
C17_OversizedParameterAborts ==
    parsed # Pending =>
        \A keyword \in SizedNames :
            LET ps == ParametersOf(keyword, raw_str)
            IN  (/\ \E k \in 1..Len(ps) : ps[k] > ParameterLimit(keyword)
                 /\ \E k \in 1..Len(Patterns) : MatchAt(Patterns[k], raw_str, 0).kind = "Match")
                    => parsed = Abort

\* an abort on a 16-bit parameter one above the limit
C17_Witness ==
    /\ parsed = Abort
    /\ raw_str = <<"V","A","R","C","H","A","R","(","6","5","5","3","6",")">>

---------------------------------------------------------------------------
(* Properties of Attribute::from_row (SpecRow: one-column tables).         *)

\* C10: the constraint set built for a row with a recognized type holds
\* NotNull exactly when nullable is "NO", AutoIncrement exactly when extra
\* contains "auto_increment", Unique exactly when key is "UNI", a ForeignKey
\* exactly when key is "MUL", and nothing else
C10_ConstraintsFollowTheRow ==
    (Len(attr) = 1 /\ attr[1][1].kind = "Some") =>
        LET row == db.rows[1].val
            cs == attr[1][1].val.constraint
        IN  /\ NotNull \in cs <=> row.nullable = <<"N","O">>
            /\ AutoIncrement \in cs <=> Contains(row.extra, <<"a","u","t","o","_","i","n","c","r","e","m","e","n","t">>)
            /\ Unique \in cs <=> row.key = <<"U","N","I">>
            /\ (\E c \in cs : c.kind = "ForeignKey") <=> row.key = <<"M","U","L">>
            /\ \A c \in cs : c.kind \in {"NotNull", "AutoIncrement", "Unique", "ForeignKey"}

---------------------------------------------------------------------------
(* Properties of the constraint set (SpecSet).                             *)

\* C11: after any sequence of insertions the set holds at most one entry of
\* each constraint kind; two ForeignKey constraints with different targets
\* leave one foreign-key entry
C11_OneEntryPerKind ==
    \A c, d \in constraint_set : c.kind = d.kind => c = d

====
